---- MODULE Spec2Model ----
(***************************************************************************)
(* ID3 decision trees (package id3): training with a shared iteration      *)
(* budget, classification, error evaluation and Reduced Error Pruning.     *)
(*                                                                         *)
(* Instances and Decision nodes live in two heaps (sequences indexed by    *)
(* address), because the Go code works on *Instance and *Decision and      *)
(* mutates both in place.  A Go map is a function whose DOMAIN is the set  *)
(* of keys present; a read of an absent key yields the zero value.         *)
(***************************************************************************)
EXTENDS Integers, Sequences, FiniteSets, TLC

\* ------------------------------------------------------------------ bounds
\* Largest number of instances in the training dataset.
MaxInsts == 3
\* Largest number of instances in a dataset given to Classify,
\* CalculateError and ReducedErrorPrune.
MaxValid == 2
\* Largest feature code (Feature is uint8 in the source; the model keeps
\* the codes 0..MaxFeature).
MaxFeature == 1
\* Largest finite budget handed to LimitedTrain.
MaxIter == 2
\* Recursion depth from which the selectors of the model answer "no feature".
MaxDepth == 2
\* Width of Go's uint in the model (64 in the build; the counter wraps the
\* same way at any width).
UintBits == 8
\* Number of ReducedErrorPrune calls made on one tree.
MaxPrunes == 1
\* Largest number of instances in a dataset trained on with
\* BestFeatureInformationGain (the two test datasets apart).
MaxGainInsts == 4

\* ------------------------------------------------------------- data model
\* Feature names used as map keys.
Names == {"a", "b"}
\* The "no feature left" answer of a BestFeatureFunc.
NONE == ""
Feature == 0..MaxFeature
Target == BOOLEAN
UintMax == 2^UintBits - 1
\* *Decision(nil) / no address
NIL == 0

\* All feature mappings over a set of keys.
FeatureMaps(keys) == [keys -> Feature]
\* type Instance struct { FeatureValues map[string]Feature; TargetValue Target }
\* Instances carrying every feature name (the key set training assumes).
FullInstance == [FeatureValues : FeatureMaps(Names), TargetValue : Target]
\* Instances given to a trained tree: every feature name, or "b" missing.
ProbeInstance ==
  [FeatureValues : FeatureMaps(Names) \cup FeatureMaps(Names \ {"b"}), TargetValue : Target]

\* m[k] on a Go map: the zero value when the key is absent.
Lookup(m, k) == IF k \in DOMAIN m THEN m[k] ELSE 0
\* delete(m, k)
Delete(m, k) == [x \in DOMAIN m \ {k} |-> m[x]]
\* The mutated assignment: the map is left as it was.
NoStore(m, k, v) == m
\* m[k] = v on a Go map
Store(m, k, v) == [x \in DOMAIN m \cup {k} |-> IF x = k THEN v ELSE m[x]]
\* make(map...) : the empty map
EmptyMap == [x \in {} |-> 0]

\* type Decision struct
OutputNode(v) == [nextDecisions |-> EmptyMap, featureName |-> NONE, isOutput |-> TRUE, outputValue |-> v]
DecisionNode(f) == [nextDecisions |-> EmptyMap, featureName |-> f, isOutput |-> FALSE, outputValue |-> FALSE]

\* All sequences over S of length at most n.
SeqUpTo(S, n) == UNION {[1..k -> S] : k \in 0..n}
\* The addresses 1..n as a dataset.
Addrs(n) == [i \in 1..n |-> i]

VARIABLES
  heap,        \* Instance heap: address -> Instance
  ds,          \* the caller's ClassifiedDataSet.Instances ([]*Instance)
  nodes,       \* Decision heap: address -> Decision
  root,        \* the tree held by the caller (NIL before training)
  iterations,  \* the uint that LimitedTrain's *iterations points to
  stack,       \* call stack of limitedTrain frames that are in their range loop
  pc,          \* "idle" | "train" | "trained" | "held" | "ready" | "prune"
  res,         \* what the last returned call returned
  n0,          \* budget the current training run started with
  calls,       \* number of recursive limitedTrain calls made in this run
  bf,          \* the BestFeatureFunc handed to the current training run
  treeStack,   \* ReducedErrorPrune: stack of *Decision
  dsStack,     \* ReducedErrorPrune: stack of []*Instance
  curTree,     \* ReducedErrorPrune: node popped last
  todo,        \* ReducedErrorPrune: keys of curTree.nextDecisions still to visit
  featureValueToInsts, \* ReducedErrorPrune: buckets of curDS
  nodes0,      \* the Decision heap when ReducedErrorPrune was called
  pushes,      \* ReducedErrorPrune: how often each node was put on treeStack
  prunes       \* number of ReducedErrorPrune calls made on this tree

vars == <<heap, ds, nodes, root, iterations, stack, pc, res, n0, calls, bf,
          treeStack, dsStack, curTree, todo, featureValueToInsts, nodes0, pushes,
          prunes>>

trainVars == <<heap, ds, nodes, root, iterations, stack, n0, calls, bf>>
pruneVars ==
  <<treeStack, dsStack, curTree, todo, featureValueToInsts, nodes0, pushes, prunes>>

\* ---------------------------------------------------------------- helpers
\* The mutated comparison: a later value that only ties the count wins.
ExceedsOrTies(count, highestCount) == count >= highestCount
\* mostPopularTarget: "if count > highestCount"
Exceeds(count, highestCount) == count > highestCount

RECURSIVE mostPopularLoop(_, _, _, _, _, _)
\* The range loop of mostPopularTarget from index i on.
mostPopularLoop(h, insts, i, targetCounts, highestCount, highestTarget) ==
  IF i > Len(insts) THEN highestTarget
  ELSE LET t == h[insts[i]].TargetValue
           count == Lookup(targetCounts, t) + 1
           up == Exceeds(count, highestCount)
       IN mostPopularLoop(h, insts, i + 1, Store(targetCounts, t, count),
                          IF up THEN count ELSE highestCount,
                          IF up THEN t ELSE highestTarget)

\* func mostPopularTarget(insts []*Instance) Target
mostPopularTarget(h, insts) == mostPopularLoop(h, insts, 1, EmptyMap, 0, FALSE)

\* func instancesIdentical(insts []*Instance) bool
instancesIdentical(h, insts) ==
  \A i \in 2..Len(insts) : h[insts[i]].TargetValue = h[insts[i-1]].TargetValue

\* The mutated bucket map: one bucket per feature code, observed or not.
BucketsOfAllCodes(h, insts, f) ==
  [v \in Feature |-> SelectSeq(insts, LAMBDA p : Lookup(h[p].FeatureValues, f) = v)]
\* "Sort instances into buckets of feature value": one bucket per observed
\* value, each in dataset order (limitedTrain and ReducedErrorPrune).
BucketsOf(h, insts, f) ==
  [v \in {Lookup(h[insts[i]].FeatureValues, f) : i \in 1..Len(insts)} |->
     SelectSeq(insts, LAMBDA p : Lookup(h[p].FeatureValues, f) = v)]

\* func (i *Instance) Clone() *Instance : the value of the new Instance.
Clone(i) ==
  [FeatureValues |-> [k \in DOMAIN i.FeatureValues |-> i.FeatureValues[k]],
   TargetValue |-> i.TargetValue]

\* The mutated clone loop: the key is deleted from the caller's instances.
DeleteInPlace(h, insts, f) ==
  [heap |-> [p \in 1..Len(h) |->
               IF \E i \in 1..Len(insts) : insts[i] = p
               THEN [h[p] EXCEPT !.FeatureValues = Delete(@, f)] ELSE h[p]],
   ds |-> insts]
\* "Clone dataset so features can be removed": every instance is cloned to a
\* fresh address and the key f is deleted from the clone; ds is the new slice.
CloneDataset(h, insts, f) ==
  [heap |-> h \o [i \in 1..Len(insts) |->
                    [Clone(h[insts[i]]) EXCEPT !.FeatureValues = Delete(@, f)]],
   ds |-> [i \in 1..Len(insts) |-> Len(h) + i]]

\* The mutated decrement: the counter is left alone.
NoDecrement(i) == i
\* "*iterations -= 1" on a uint
Decrement(i) == (i - 1) % (2^UintBits)

\* The if/else-if chain of limitedTrain on dataset insts, with f the answer
\* of bf(ds) and it the value of *iterations: which branch runs and the node
\* dtree it leaves.
limitedTrainBranch(h, insts, f, it) ==
  IF Len(insts) = 0 THEN [kind |-> "error", node |-> DecisionNode(NONE)]
  ELSE IF f = NONE
  THEN [kind |-> "leaf", node |-> OutputNode(mostPopularTarget(h, insts))]
  ELSE IF it = 0
  THEN [kind |-> "leaf", node |-> OutputNode(mostPopularTarget(h, insts))]
  ELSE IF instancesIdentical(h, insts)
  THEN [kind |-> "leaf",
        node |-> [OutputNode(h[insts[1]].TargetValue) EXCEPT !.featureName = f]]
  ELSE [kind |-> "split", node |-> DecisionNode(f)]

\* A float64 quotient num/den of two counts; 0/0 is NaN.
Quot(num, den) == [num |-> num, den |-> den]
IsNaN(x) == x.den = 0
\* The mutated comparison of ReducedErrorPrune: ">=" for ">".
FloatGe(x, y) == ~IsNaN(x) /\ ~IsNaN(y) /\ x.num * y.den >= y.num * x.den
\* The mutated comparison of ReducedErrorPrune: "<" for ">".
FloatLt(x, y) == ~IsNaN(x) /\ ~IsNaN(y) /\ x.num * y.den < y.num * x.den
\* x > y on float64 (false when either side is NaN)
FloatGt(x, y) == ~IsNaN(x) /\ ~IsNaN(y) /\ x.num * y.den > y.num * x.den

\* --------------------------------------------------- information gain
\* float64 values of the entropy computation are exact quotients whose
\* numerators count 1/LogScale bits.
LogScale == 1000000
\* math.Log2 of the odd primes up to 13, in 1/LogScale bits.
Log2Of3 == 1584963
Log2Of5 == 2321928
Log2Of7 == 2807355
Log2Of11 == 3459432
Log2Of13 == 3700440

RECURSIVE GCD(_, _)
GCD(x, y) == IF y = 0 THEN x ELSE GCD(y, x % y)
Abs(x) == IF x < 0 THEN 0 - x ELSE x
\* A quotient in lowest terms.
Norm(num, den) ==
  LET g == GCD(Abs(num), den) IN
  IF num = 0 THEN Quot(0, 1) ELSE Quot(num \div g, den \div g)
FloatAdd(x, y) == Norm(x.num * y.den + y.num * x.den, x.den * y.den)
FloatSub(x, y) == Norm(x.num * y.den - y.num * x.den, x.den * y.den)
FloatMul(x, y) == Norm(x.num * y.num, x.den * y.den)
FloatNeg(x) == Quot(0 - x.num, x.den)

\* math.Log2 of a positive integer (a product of primes up to 13).
RECURSIVE Log2(_)
Log2(k) ==
  CASE k = 1 -> 0
    [] k > 1 /\ k % 2 = 0 -> LogScale + Log2(k \div 2)
    [] k > 1 /\ k % 2 # 0 /\ k % 3 = 0 -> Log2Of3 + Log2(k \div 3)
    [] k = 5 -> Log2Of5
    [] k = 7 -> Log2Of7
    [] k = 11 -> Log2Of11
    [] k = 13 -> Log2Of13

\* "pI := float64(count) / float64(len(insts)); pI * math.Log2(pI)"
PLog2P(count, len) ==
  IF count = 0 THEN Quot(0, 1) ELSE Norm(count * (Log2(count) - Log2(len)), len)

\* func entropy(insts []*Instance) float64
entropy(h, insts) ==
  LET targetCounts == [t \in Target |->
                         Cardinality({i \in 1..Len(insts) : h[insts[i]].TargetValue = t})]
      H == FloatAdd(PLog2P(targetCounts[TRUE], Len(insts)),
                    PLog2P(targetCounts[FALSE], Len(insts)))
  IN FloatNeg(H)

\* "featureValueInsts": the instances whose featureName reads featureValue.
featureValueInsts(h, insts, featureName, featureValue) ==
  SelectSeq(insts, LAMBDA p : Lookup(h[p].FeatureValues, featureName) = featureValue)

\* "for featureValue, featureCount := range featureValueCounts"
RECURSIVE infoGainLoop(_, _, _, _, _)
infoGainLoop(h, insts, featureName, featureValues, infoGain) ==
  IF featureValues = {} THEN infoGain
  ELSE LET featureValue == CHOOSE v \in featureValues : TRUE
           fvi == featureValueInsts(h, insts, featureName, featureValue)
           featureValueEntropy == entropy(h, fvi)
       IN infoGainLoop(h, insts, featureName, featureValues \ {featureValue},
                       FloatSub(infoGain,
                                FloatMul(Quot(Len(fvi), Len(insts)), featureValueEntropy)))

\* func infoGainOfFeature(ds ClassifiedDataSet, featureName string) float64
infoGainOfFeature(h, insts, featureName) ==
  infoGainLoop(h, insts, featureName,
               {Lookup(h[insts[i]].FeatureValues, featureName) : i \in 1..Len(insts)},
               entropy(h, insts))

\* "for featureName := range ds.Instances[0].FeatureValues": the names the
\* loop can end with, over every order in which the map hands out its keys.
RECURSIVE bestFeatureLoop(_, _, _, _, _)
bestFeatureLoop(h, insts, keys, greatestInfoGain, greatestFeatureName) ==
  IF keys = {} THEN {greatestFeatureName}
  ELSE UNION {LET infoGain == infoGainOfFeature(h, insts, featureName) IN
              IF FloatGt(infoGain, greatestInfoGain)
              THEN bestFeatureLoop(h, insts, keys \ {featureName}, infoGain, featureName)
              ELSE bestFeatureLoop(h, insts, keys \ {featureName},
                                   greatestInfoGain, greatestFeatureName)
              : featureName \in keys}

\* func BestFeatureInformationGain(ds ClassifiedDataSet) string
BestFeatureInformationGain(h, insts) ==
  bestFeatureLoop(h, insts, DOMAIN h[insts[1]].FeatureValues, Quot(0, 1), NONE)

\* The answers a BestFeatureFunc may give at recursion depth d: any name or
\* NONE; from depth MaxDepth on the selectors of the model answer NONE.
SelectorAnswers(d) == IF d >= MaxDepth THEN {NONE} ELSE Names \cup {NONE}

\* The two kinds of BestFeatureFunc a training run is given.
AnyBestFeatureFunc == "any"
InformationGain == "BestFeatureInformationGain"
\* bf(ds) at recursion depth d, for the BestFeatureFunc b.
Select(b, h, insts, d) ==
  IF b # InformationGain THEN SelectorAnswers(d)
  ELSE IF insts = <<>> THEN {NONE}
  ELSE BestFeatureInformationGain(h, insts)

\* A limitedTrain frame inside its "for k, v := range bestFeatureValToInstances".
Frame(n, k, cl, b) ==
  [node |-> n, key |-> k, ds |-> cl, bestFeatureValToInstances |-> b, todo |-> DOMAIN b]

NoRes ==
  [op |-> "none", err |-> "", rate |-> [num |-> 0, den |-> 1], arg |-> 0,
   paths |-> <<>>, name |-> ""]
Res(op, err, rate, arg) ==
  [op |-> op, err |-> err, rate |-> rate, arg |-> arg, paths |-> <<>>, name |-> ""]
ZeroRate == [num |-> 0, den |-> 1]

ErrNoInstances == "no instances provided"
ErrNoInstancesToExtend == "no instances available to extend tree"
ErrMissingFeature == "no decision node for feature"
ErrUnknownValue == "no decision node corresponding to instance value"

\* -------------------------------------------------------------- training
Init ==
  /\ \E d \in SeqUpTo(FullInstance, MaxInsts) : heap = d /\ ds = Addrs(Len(d))
  /\ nodes = <<>> /\ root = NIL /\ iterations = 0 /\ stack = <<>>
  /\ pc = "idle" /\ res = NoRes /\ n0 = 0 /\ calls = 0
  /\ treeStack = <<>> /\ dsStack = <<>> /\ curTree = NIL /\ todo = {}
  /\ featureValueToInsts = EmptyMap /\ nodes0 = <<>> /\ prunes = 0
  /\ bf = NONE /\ pushes = <<>>

\* LimitedTrain(ds, bf, n): the top-level limitedTrain call up to its return
\* or to the start of its range loop.
BeginWith(sel, n) ==
  /\ pc = "idle"
  /\ \E f \in Select(sel, heap, ds, 0) :
       LET b == limitedTrainBranch(heap, ds, f, n) IN
       /\ n0' = n /\ calls' = 0 /\ iterations' = n /\ bf' = sel
       /\ UNCHANGED <<ds, pruneVars>>
       /\ CASE b.kind = "error" ->
                 /\ pc' = "trained" /\ res' = Res("train", ErrNoInstances, ZeroRate, 0)
                 /\ UNCHANGED <<heap, nodes, root, stack>>
            [] b.kind = "leaf" ->
                 /\ nodes' = <<b.node>> /\ root' = 1
                 /\ pc' = "trained" /\ res' = Res("train", "", ZeroRate, 0)
                 /\ UNCHANGED <<heap, stack>>
            [] b.kind = "split" ->
                 LET c == CloneDataset(heap, ds, f) IN
                 /\ heap' = c.heap
                 /\ nodes' = <<b.node>>
                 /\ stack' = <<Frame(1, 0, c.ds, BucketsOf(heap, ds, f))>>
                 /\ pc' = "train" /\ res' = NoRes
                 /\ UNCHANGED root

\* A training run with a BestFeatureFunc about which nothing is assumed.
Begin(n) == BeginWith(AnyBestFeatureFunc, n)

\* func Train: "return LimitedTrain(ds, bf, ^uint(0))"
Train == Begin(UintMax)

\* func LimitedTrain(ds, bf, iterations)
LimitedTrain == \E n \in 0..MaxIter : Begin(n)

\* One iteration of "for k, v := range bestFeatureValToInstances" in the top
\* frame: decrement, call limitedTrain on the bucket; a callee that returns
\* at once (leaf or error) is handled here, one that splits gets a frame.
Recurse ==
  /\ pc = "train" /\ stack # <<>>
  /\ LET top == stack[Len(stack)] IN
     \E k \in top.todo :
     \E f \in Select(bf, heap, top.bestFeatureValToInstances[k], Len(stack)) :
       LET it == Decrement(iterations)
           v == top.bestFeatureValToInstances[k]
           b == limitedTrainBranch(heap, v, f, it)
           a == Len(nodes) + 1
           popped == [stack EXCEPT ![Len(stack)].todo = @ \ {k}]
       IN
       /\ iterations' = it /\ calls' = calls + 1
       /\ UNCHANGED <<ds, n0, bf, pruneVars>>
       /\ CASE b.kind = "error" ->
                 /\ pc' = "trained" /\ stack' = <<>> /\ root' = NIL
                 /\ res' = Res("train", ErrNoInstancesToExtend, ZeroRate, 0)
                 /\ UNCHANGED <<heap, nodes>>
            [] b.kind = "leaf" ->
                 /\ nodes' = [Append(nodes, b.node) EXCEPT
                                ![top.node].nextDecisions = Store(@, k, a)]
                 /\ stack' = popped
                 /\ UNCHANGED <<heap, root, pc, res>>
            [] b.kind = "split" ->
                 LET c == CloneDataset(heap, v, f) IN
                 /\ heap' = c.heap
                 /\ nodes' = Append(nodes, b.node)
                 /\ stack' = Append(popped, Frame(a, k, c.ds, BucketsOf(heap, v, f)))
                 /\ UNCHANGED <<root, pc, res>>

\* "return dtree, nil" of the top frame once its range loop is over: the
\* caller stores the node under its key, or LimitedTrain returns the root.
Return ==
  /\ pc = "train" /\ stack # <<>> /\ stack[Len(stack)].todo = {}
  /\ LET top == stack[Len(stack)] IN
     /\ stack' = SubSeq(stack, 1, Len(stack) - 1)
     /\ IF Len(stack) = 1
        THEN /\ root' = top.node /\ pc' = "trained"
             /\ res' = Res("train", "", ZeroRate, 0)
             /\ UNCHANGED nodes
        ELSE /\ nodes' = [nodes EXCEPT ![stack[Len(stack) - 1].node].nextDecisions =
                                         Store(@, top.key, top.node)]
             /\ UNCHANGED <<root, pc, res>>
  /\ UNCHANGED <<heap, ds, iterations, n0, calls, bf, pruneVars>>

\* ------------------------------------------- classification and error
\* The mutated key test: every key reads as absent.
NeverPresent(m, k) == FALSE
\* The "ok" of "v, ok := m[k]"
Present(m, k) == k \in DOMAIN m

RECURSIVE Classify(_, _, _, _)
\* func (dtree *Decision) Classify(inst *Instance) error, on node n and the
\* instance at address p: the error returned and the instance heap it leaves.
Classify(nd, n, h, p) ==
  IF nd[n].isOutput
  THEN [err |-> "", heap |-> [h EXCEPT ![p].TargetValue = nd[n].outputValue]]
  ELSE IF Present(h[p].FeatureValues, nd[n].featureName)
  THEN LET thisValue == Lookup(h[p].FeatureValues, nd[n].featureName) IN
       IF Present(nd[n].nextDecisions, thisValue)
       THEN Classify(nd, nd[n].nextDecisions[thisValue], h, p)
       ELSE [err |-> ErrUnknownValue, heap |-> h]
  ELSE [err |-> ErrMissingFeature, heap |-> h]


\* The mutated restore: the classified label is left in the instance.
NoRestore(h, p, correctTargetValue) == h
\* "inst.TargetValue = correctTargetValue // Restore original value"
Restore(h, p, correctTargetValue) == [h EXCEPT ![p].TargetValue = correctTargetValue]

RECURSIVE calculateErrorLoop(_, _, _, _, _, _)
\* The range loop of CalculateError from index i on.
calculateErrorLoop(nd, n, h, insts, i, wrongClassifications) ==
  IF i > Len(insts)
  THEN [rate |-> Quot(wrongClassifications, Len(insts)), err |-> "", heap |-> h]
  ELSE LET correctTargetValue == h[insts[i]].TargetValue
           c == Classify(nd, n, h, insts[i])
       IN IF c.err # ""
          THEN [rate |-> Quot(1, 1), err |-> c.err, heap |-> c.heap]
          ELSE calculateErrorLoop(nd, n, Restore(c.heap, insts[i], correctTargetValue),
                 insts, i + 1,
                 IF correctTargetValue # c.heap[insts[i]].TargetValue
                 THEN wrongClassifications + 1 ELSE wrongClassifications)

\* The mutated evaluation: a failed classification is not reported.
SwallowError(nd, n, h, insts) ==
  [calculateErrorLoop(nd, n, h, insts, 1, 0) EXCEPT !.err = ""]
\* func (dtree *Decision) CalculateError(ds ClassifiedDataSet) (float64, error)
CalculateError(nd, n, h, insts) == calculateErrorLoop(nd, n, h, insts, 1, 0)

\* The caller keeps the trained tree and drops the training dataset; the
\* locals of the finished LimitedTrain call (clones, counter) are gone.
Release ==
  /\ pc = "trained" /\ root # NIL
  /\ heap' = <<>> /\ ds' = <<>>
  /\ pc' = "held" /\ res' = NoRes
  /\ iterations' = 0 /\ n0' = 0 /\ calls' = 0
  /\ UNCHANGED <<nodes, root, stack, bf, pruneVars>>

\* The caller makes the dataset it will classify, evaluate or prune with.
NewDataset ==
  /\ pc = "held"
  /\ \E d \in SeqUpTo(ProbeInstance, MaxValid) : heap' = d /\ ds' = Addrs(Len(d))
  /\ pc' = "ready" /\ res' = NoRes
  /\ UNCHANGED <<nodes, root, iterations, stack, n0, calls, bf, pruneVars>>

\* root.Classify(ds.Instances[i])
ClassifyCall ==
  /\ pc = "ready"
  /\ \E i \in 1..Len(ds) :
       LET c == Classify(nodes, root, heap, ds[i]) IN
       /\ heap' = c.heap
       /\ res' = Res("classify", c.err, ZeroRate, ds[i])
  /\ UNCHANGED <<ds, nodes, root, iterations, stack, pc, n0, calls, bf, pruneVars>>

\* root.CalculateError(ds)
CalculateErrorCall ==
  /\ pc = "ready"
  /\ LET e == CalculateError(nodes, root, heap, ds) IN
       /\ heap' = e.heap
       /\ res' = Res("error", e.err, e.rate, 0)
  /\ UNCHANGED <<ds, nodes, root, iterations, stack, pc, n0, calls, bf, pruneVars>>

\* ----------------------------------------------------------- String
\* A Go string is the sequence of its bytes.  Ascii gives the byte of a
\* one-character string, Str the bytes of a text written character by
\* character.
Letters == <<"a", "b", "c", "d", "e", "f", "g", "h", "i", "j", "k", "l", "m",
             "n", "o", "p", "q", "r", "s", "t", "u", "v", "w", "x", "y", "z">>
Digits == <<"0", "1", "2", "3", "4", "5", "6", "7", "8", "9">>
Ascii(c) ==
  CASE c = " " -> 32
    [] c \in {Digits[i] : i \in 1..Len(Digits)} ->
         47 + (CHOOSE i \in 1..Len(Digits) : Digits[i] = c)
    [] c = "=" -> 61
    [] c = ">" -> 62
    [] c = "[" -> 91
    [] c = "]" -> 93
    [] OTHER -> 96 + (CHOOSE i \in 1..Len(Letters) : Letters[i] = c)
Str(chars) == [i \in 1..Len(chars) |-> Ascii(chars[i])]

\* The characters of the feature names in use.
Chars(name) ==
  CASE name = "a" -> <<"a">>
    [] name = "b" -> <<"b">>
    [] name = "salty" -> <<"s", "a", "l", "t", "y">>
    [] name = "sweet" -> <<"s", "w", "e", "e", "t">>
    [] name = "outlook" -> <<"o", "u", "t", "l", "o", "o", "k">>
    [] name = "temp" -> <<"t", "e", "m", "p">>
    [] name = "humidity" -> <<"h", "u", "m", "i", "d", "i", "t", "y">>
    [] name = "wind" -> <<"w", "i", "n", "d">>
    [] OTHER -> <<>>

\* fmt's %v of a Feature (uint8): its decimal digits.
RECURSIVE Decimal(_)
Decimal(n) == IF n < 10 THEN <<48 + n>> ELSE Decimal(n \div 10) \o <<48 + (n % 10)>>

\* fmt.Sprintf("%v[%v] ==> ", featureName, featureVal)
SprintStep(featureName, featureVal) ==
  Str(Chars(featureName)) \o Str(<<"[">>) \o Decimal(featureVal)
    \o Str(<<"]", " ", "=", "=", ">", " ">>)

\* fmt.Sprintf("%#v", outputValue) of a Target (bool)
SprintTarget(outputValue) ==
  IF outputValue THEN Str(<<"t", "r", "u", "e">>) ELSE Str(<<"f", "a", "l", "s", "e">>)

\* x < y on Go strings: bytewise lexicographic order.
RECURSIVE StrLess(_, _)
StrLess(x, y) ==
  IF y = <<>> THEN FALSE
  ELSE IF x = <<>> THEN TRUE
  ELSE IF Head(x) # Head(y) THEN Head(x) < Head(y)
  ELSE StrLess(Tail(x), Tail(y))

\* Puts one string into a sorted sequence of strings.
RECURSIVE Insert(_, _)
Insert(sorted, x) ==
  IF sorted = <<>> THEN <<x>>
  ELSE IF StrLess(x, Head(sorted)) THEN <<x>> \o sorted
  ELSE <<Head(sorted)>> \o Insert(Tail(sorted), x)

\* The mutated sort: the paths stay in the order the maps gave them.
Unsorted(paths) == paths
\* sort.Strings(paths)
RECURSIVE SortStrings(_)
SortStrings(paths) ==
  IF paths = <<>> THEN <<>> ELSE Insert(SortStrings(Tail(paths)), Head(paths))

\* All sequences that hold every element of S once.
Perms(S) ==
  {q \in [1..Cardinality(S) -> S] : \A i, j \in 1..Cardinality(S) : q[i] = q[j] => i = j}

\* The orders in which the "range" loops over nextDecisions can hand out
\* the keys: one sequence of the keys per internal node.
Orders(nd) ==
  LET internal == {m \in 1..Len(nd) : ~nd[m].isOutput}
      all == UNION {Perms(DOMAIN nd[m].nextDecisions) : m \in internal}
  IN {o \in [internal -> all] :
        \A m \in internal : o[m] \in Perms(DOMAIN nd[m].nextDecisions)}

\* "for k, v := range parent.nextDecisions { if v == pChild { featureVal = k;
\* break } }": the first key in the map's order that holds pChild, else 0.
RECURSIVE featureValOf(_, _, _)
\* The mutated search: the child is never found.
KeyNotFound(nextDecisions, keys, pChild) == 0
featureValOf(nextDecisions, keys, pChild) ==
  IF keys = <<>> THEN 0
  ELSE IF nextDecisions[Head(keys)] = pChild THEN Head(keys)
  ELSE featureValOf(nextDecisions, Tail(keys), pChild)

\* "for i, parent := range parents": the path written so far, from parent i on.
RECURSIVE pathLoop(_, _, _, _, _, _)
pathLoop(nd, n, parents, order, i, sout) ==
  IF i > Len(parents) THEN sout
  ELSE LET parent == parents[i]
           pChild == IF i + 1 <= Len(parents) THEN parents[i + 1] ELSE n
           featureVal == featureValOf(nd[parent].nextDecisions, order[parent], pChild)
       IN pathLoop(nd, n, parents, order, i + 1,
                   sout \o SprintStep(nd[parent].featureName, featureVal))

\* func (dtree *Decision) string(parents []*Decision) []string
RECURSIVE string(_, _, _, _)
RECURSIVE subtreesLoop(_, _, _, _, _)
string(nd, n, parents, order) ==
  IF nd[n].isOutput
  THEN <<pathLoop(nd, n, parents, order, 1, <<>>) \o SprintTarget(nd[n].outputValue)>>
  ELSE subtreesLoop(nd, n, Append(parents, n), order, order[n])
\* "for _, subtree := range dtree.nextDecisions": keys still to come.
subtreesLoop(nd, n, parents, order, keys) ==
  IF keys = <<>> THEN <<>>
  ELSE string(nd, nd[n].nextDecisions[Head(keys)], parents, order)
         \o subtreesLoop(nd, n, parents, order, Tail(keys))

\* func (dtree *Decision) String() []string
String(nd, n, order) == SortStrings(string(nd, n, <<>>, order))

\* root.String() on the tree the caller holds.
StringCall ==
  /\ pc \in {"trained", "held"} /\ root # NIL
  /\ \E order \in Orders(nodes) :
       res' = [Res("string", "", ZeroRate, 0) EXCEPT !.paths = String(nodes, root, order)]
  /\ UNCHANGED <<heap, ds, nodes, root, iterations, stack, pc, n0, calls, bf, pruneVars>>

\* ---------------------------------------------------- ReducedErrorPrune
\* root.ReducedErrorPrune(ds): "treeStack, dsStack := []*Decision{thisTree},
\* [][]*Instance{validate.Instances}"
ReducedErrorPrune ==
  /\ pc = "ready" /\ prunes < MaxPrunes
  /\ treeStack' = <<root>> /\ dsStack' = <<ds>>
  /\ curTree' = NIL /\ todo' = {} /\ featureValueToInsts' = EmptyMap
  /\ nodes0' = nodes /\ pc' = "prune" /\ res' = NoRes
  /\ pushes' = [n \in 1..Len(nodes) |-> IF n = root THEN 1 ELSE 0]
  /\ UNCHANGED <<trainVars, prunes>>

\* The mutated pop: the stack keeps its top.
NoPop(s) == s
\* "treeStack[:len(treeStack)-1]", "dsStack[:len(dsStack)-1]"
Pop(s) == SubSeq(s, 1, Len(s) - 1)

\* "Pop from the stack"; an output node is skipped, otherwise curDS is
\* sorted into buckets and the range loop over the children starts.
PrunePop ==
  /\ pc = "prune" /\ todo = {} /\ treeStack # <<>>
  /\ LET cur == treeStack[Len(treeStack)]
         curDS == dsStack[Len(dsStack)]
     IN /\ treeStack' = Pop(treeStack)
        /\ dsStack' = Pop(dsStack)
        /\ curTree' = cur
        /\ IF nodes[cur].isOutput
           THEN todo' = {} /\ featureValueToInsts' = EmptyMap
           ELSE /\ featureValueToInsts' = BucketsOf(heap, curDS, nodes[cur].featureName)
                /\ todo' = DOMAIN nodes[cur].nextDecisions
  /\ UNCHANGED <<trainVars, pc, res, nodes0, pushes, prunes>>

\* One iteration of "for featureValue, subTree := range curTree.nextDecisions".
PruneChild ==
  /\ pc = "prune" /\ todo # {}
  /\ \E featureValue \in todo :
       LET subTree == nodes[curTree].nextDecisions[featureValue]
           applicableInstances ==
             IF featureValue \in DOMAIN featureValueToInsts
             THEN featureValueToInsts[featureValue] ELSE <<>>
           prev == CalculateError(nodes, root, heap, ds)
           a == Len(nodes) + 1
           replaced == [Append(nodes, OutputNode(mostPopularTarget(prev.heap, applicableInstances)))
                          EXCEPT ![curTree].nextDecisions = Store(@, featureValue, a)]
           post == CalculateError(replaced, root, prev.heap, ds)
       IN IF prev.err # ""
          THEN /\ heap' = prev.heap
               /\ pc' = "ready" /\ res' = Res("prune", prev.err, ZeroRate, 0)
               /\ prunes' = prunes + 1
               /\ UNCHANGED <<nodes, treeStack, dsStack, todo, pushes>>
          ELSE /\ heap' = post.heap
               /\ todo' = todo \ {featureValue}
               /\ UNCHANGED <<pc, res, prunes>>
               /\ IF FloatGt(post.rate, prev.rate)
                  THEN /\ nodes' = [replaced EXCEPT ![curTree].nextDecisions =
                                                      Store(@, featureValue, subTree)]
                       /\ treeStack' = Append(treeStack, subTree)
                       /\ dsStack' = Append(dsStack, applicableInstances)
                       /\ pushes' = [pushes EXCEPT ![subTree] = @ + 1]
                  ELSE /\ nodes' = replaced
                       /\ UNCHANGED <<treeStack, dsStack, pushes>>
  /\ UNCHANGED <<ds, root, iterations, stack, n0, calls, bf, curTree, featureValueToInsts,
               nodes0>>

\* "return nil" once the stack is empty.
PruneReturn ==
  /\ pc = "prune" /\ todo = {} /\ treeStack = <<>>
  /\ pc' = "ready" /\ res' = Res("prune", "", ZeroRate, 0)
  /\ prunes' = prunes + 1
  /\ UNCHANGED <<trainVars, treeStack, dsStack, curTree, todo, featureValueToInsts, nodes0,
               pushes>>

NextTrain == Train \/ LimitedTrain \/ Recurse \/ Return
SpecTrain == Init /\ [][NextTrain]_vars

Next ==
  \/ Train \/ LimitedTrain \/ Recurse \/ Return
  \/ Release \/ StringCall \/ NewDataset \/ ClassifyCall \/ CalculateErrorCall
  \/ ReducedErrorPrune \/ PrunePop \/ PruneChild \/ PruneReturn
Spec == Init /\ [][Next]_vars

\* ------------------------------------------ information-gain training
\* The datasets of TestCandy and TestTennis.
CandyInstance(salty, sweet, t) ==
  [FeatureValues |-> [salty |-> salty, sweet |-> sweet], TargetValue |-> t]
Candy ==
  <<CandyInstance(0, 0, FALSE), CandyInstance(1, 0, FALSE),
    CandyInstance(1, 1, TRUE), CandyInstance(0, 1, TRUE)>>
TennisInstance(outlook, temp, humidity, wind, t) ==
  [FeatureValues |-> [outlook |-> outlook, temp |-> temp, humidity |-> humidity,
                      wind |-> wind],
   TargetValue |-> t]
Tennis ==
  <<TennisInstance(2, 2, 1, 0, FALSE), TennisInstance(2, 2, 1, 1, FALSE),
    TennisInstance(1, 2, 1, 0, TRUE), TennisInstance(0, 1, 1, 0, TRUE),
    TennisInstance(0, 0, 0, 0, TRUE), TennisInstance(0, 0, 0, 1, FALSE),
    TennisInstance(1, 0, 0, 1, TRUE), TennisInstance(2, 1, 1, 0, FALSE),
    TennisInstance(2, 0, 0, 0, TRUE), TennisInstance(0, 1, 0, 0, TRUE),
    TennisInstance(2, 1, 0, 1, TRUE), TennisInstance(1, 1, 1, 1, TRUE),
    TennisInstance(1, 2, 0, 0, TRUE), TennisInstance(0, 1, 1, 1, FALSE)>>

\* The state before a run on a bounded dataset or on one of the test datasets.
InitInformationGain ==
  /\ \E d \in SeqUpTo(FullInstance, MaxGainInsts) \cup {Candy, Tennis} :
       heap = d /\ ds = Addrs(Len(d))
  /\ nodes = <<>> /\ root = NIL /\ iterations = 0 /\ stack = <<>>
  /\ pc = "idle" /\ res = NoRes /\ n0 = 0 /\ calls = 0
  /\ treeStack = <<>> /\ dsStack = <<>> /\ curTree = NIL /\ todo = {}
  /\ featureValueToInsts = EmptyMap /\ nodes0 = <<>> /\ prunes = 0
  /\ bf = NONE /\ pushes = <<>>

\* BestFeatureInformationGain(ds) called on its own (it indexes
\* ds.Instances[0], so the dataset is not empty).
BestFeatureCall ==
  /\ pc = "idle" /\ ds # <<>>
  /\ \E f \in BestFeatureInformationGain(heap, ds) :
       res' = [Res("bestfeature", "", ZeroRate, 0) EXCEPT !.name = f]
  /\ UNCHANGED <<heap, ds, nodes, root, iterations, stack, pc, n0, calls, bf, pruneVars>>

\* Train(ds, BestFeatureInformationGain)
TrainInformationGain == BeginWith(InformationGain, UintMax)
\* LimitedTrain(ds, BestFeatureInformationGain, n)
LimitedTrainInformationGain == \E n \in 0..MaxIter : BeginWith(InformationGain, n)

NextInformationGain ==
  \/ BestFeatureCall \/ TrainInformationGain \/ LimitedTrainInformationGain
  \/ Recurse \/ Return \/ StringCall
SpecInformationGain == InitInformationGain /\ [][NextInformationGain]_vars

\* ================================================================ claims
\* The instances of the caller's dataset whose target is t.
CountOf(t) == Cardinality({i \in 1..Len(ds) : heap[ds[i]].TargetValue = t})

\* C1: training never mutates the caller's data: no step of a training run
\* changes the dataset's instance sequence, nor the feature mapping or the
\* target of any instance of it.
C1_Step ==
  pc \in {"idle", "train"} =>
    /\ ds' = ds
    /\ \A i \in 1..Len(ds) : heap'[ds[i]] = heap[ds[i]]
C1_TrainKeepsCallerData == [][C1_Step]_vars

\* C1 witness: training returned a tree whose root splits, and a clone that
\* lost the split key exists beside the untouched originals.
C1_Witness ==
  /\ pc = "trained" /\ root # NIL /\ ~nodes[root].isOutput
  /\ \E p \in (Len(ds) + 1)..Len(heap) : DOMAIN heap[p].FeatureValues # Names
  /\ \A i \in 1..Len(ds) : DOMAIN heap[ds[i]].FeatureValues = Names

\* C2: once the budget of a LimitedTrain run has reached 0 (calls >= n0), no
\* later step of the run creates an internal node, and the counter never goes
\* from 0 to a larger value.
C2_Step ==
  (pc = "train" /\ calls >= n0) =>
    /\ \A a \in (Len(nodes) + 1)..Len(nodes') : nodes'[a].isOutput
    /\ (iterations = 0 => iterations' = 0)
C2_ExhaustedBudgetStaysCollapsed == [][C2_Step]_vars

\* C3: the budget is one counter shared by the whole call tree: after the
\* k-th recursive call of a run started with budget n, for k <= n, the
\* counter is n - k, whichever branch or depth the call was made at.
C3_SharedBudgetCountsCalls ==
  (pc \in {"train", "trained"} /\ calls <= n0) => iterations = n0 - calls

\* C3 witness: the third call of a Train run is made by the root frame for a
\* later sibling, after two calls inside the first sibling's subtree.
C3_Witness ==
  /\ pc = "train" /\ Len(stack) = 1 /\ calls = 3 /\ iterations = n0 - 3
  /\ stack[1].todo = {}
  /\ \E k \in DOMAIN nodes[1].nextDecisions : ~nodes[nodes[1].nextDecisions[k]].isOutput

\* The majority target of the caller's dataset: the value with more
\* instances; on a tie, the value that is not the last instance's (it
\* reached the common count first).
MajorityFirst ==
  IF CountOf(TRUE) > CountOf(FALSE) THEN TRUE
  ELSE IF CountOf(FALSE) > CountOf(TRUE) THEN FALSE
  ELSE ~heap[ds[Len(ds)]].TargetValue

\* C4: LimitedTrain with budget 0 on a non-empty dataset returns no error
\* and a tree that is a single leaf holding the majority target.
C4_ZeroBudgetSingleLeaf ==
  (pc = "trained" /\ n0 = 0 /\ Len(ds) > 0) =>
     /\ res.err = "" /\ root # NIL /\ Len(nodes) = 1
     /\ nodes[root].isOutput
     /\ nodes[root].outputValue = MajorityFirst

\* C4 witness: budget 0 on a dataset with both targets equally often, which
\* feature "a" separates.
C4_Witness ==
  /\ pc = "trained" /\ n0 = 0 /\ Len(ds) = 2 /\ CountOf(TRUE) = 1
  /\ heap[ds[1]].FeatureValues["a"] # heap[ds[2]].FeatureValues["a"]
  /\ nodes[root].isOutput

\* C5: training fails exactly when the caller's dataset is empty, then
\* returning no tree; no frame ever holds an empty bucket, and the internal
\* "no instances available to extend tree" error is never returned.
C5_FailsOnlyOnEmptyDataset ==
  /\ pc = "trained" => /\ (res.err # "") <=> (Len(ds) = 0)
                       /\ (res.err # "") <=> (root = NIL)
                       /\ res.err # ErrNoInstancesToExtend
  /\ \A i \in 1..Len(stack) :
       \A k \in DOMAIN stack[i].bestFeatureValToInstances :
         Len(stack[i].bestFeatureValToInstances[k]) > 0

\* C5 witness: a tree was returned whose root has a child for one feature
\* code only, the other code not being observed in the dataset.
C5_Witness ==
  /\ pc = "trained" /\ res.err = "" /\ root # NIL /\ ~nodes[root].isOutput
  /\ Cardinality(DOMAIN nodes[root].nextDecisions) = 1
  /\ Len(ds) > 1

RECURSIVE WalkEnd(_, _)
\* The node where the walk of an instance from node n stops: a leaf, or the
\* first internal node whose feature the instance lacks or has a value for
\* which the node has no child.
WalkEnd(n, inst) ==
  LET d == nodes[n] IN
  IF d.isOutput THEN n
  ELSE IF /\ d.featureName \in DOMAIN inst.FeatureValues
          /\ inst.FeatureValues[d.featureName] \in DOMAIN d.nextDecisions
       THEN WalkEnd(d.nextDecisions[inst.FeatureValues[d.featureName]], inst)
       ELSE n

\* What Classify must have done to an instance (before, after) with error e.
ClassifyOutcome(before, after, e) ==
  LET d == nodes[WalkEnd(root, before)] IN
  IF d.isOutput
  THEN e = "" /\ after = [before EXCEPT !.TargetValue = d.outputValue]
  ELSE /\ after = before
       /\ IF d.featureName \in DOMAIN before.FeatureValues
          THEN e = ErrUnknownValue ELSE e = ErrMissingFeature

\* C6: Classify walks from the root into the matching child at each internal
\* node; it succeeds exactly when the walk reaches a leaf, whose value then
\* overwrites the target; otherwise it fails, with the missing-feature error
\* when the instance lacks the node's feature and with the unknown-value
\* error when the node has no child for the instance's value, and leaves the
\* instance as it was. No other instance and no node changes.
C6_Step ==
  (pc = "ready" /\ pc' = "ready" /\ res'.op = "classify") =>
    /\ ClassifyOutcome(heap[res'.arg], heap'[res'.arg], res'.err)
    /\ \A p \in 1..Len(heap) : p # res'.arg => heap'[p] = heap[p]
    /\ nodes' = nodes
C6_ClassifyWalk == [][C6_Step]_vars

\* C6 witness: below the root, a walk stopped at an internal node that has
\* no child for the instance's value.
C6_Witness ==
  /\ pc = "ready" /\ res.op = "classify" /\ res.err = ErrUnknownValue
  /\ WalkEnd(root, heap[res.arg]) # root

\* C7: CalculateError changes no target, no feature mapping and no node,
\* whether it returns a rate or aborts on a classification failure (as a
\* call of its own and inside ReducedErrorPrune).
C7_Step ==
  ((pc = "ready" /\ pc' = "ready" /\ res'.op = "error") \/ pc = "prune") =>
    heap' = heap /\ (pc = "ready" => nodes' = nodes)
C7_CalculateErrorRestores == [][C7_Step]_vars

\* C7 witness: an evaluation that aborted on its second instance after
\* classifying the first one to a label other than its own.
C7_Witness ==
  /\ pc = "ready" /\ res.op = "error" /\ res.err # "" /\ Len(ds) = 2
  /\ LET c == Classify(nodes, root, heap, ds[1]) IN
       c.err = "" /\ c.heap[ds[1]].TargetValue # heap[ds[1]].TargetValue

\* The instances of insts that the tree at node n of heap nd classifies to
\* a label other than their own.
Wrong(nd, n, insts) ==
  Cardinality({i \in 1..Len(insts) :
     LET c == Classify(nd, n, heap, insts[i]) IN
       c.err = "" /\ c.heap[insts[i]].TargetValue # heap[insts[i]].TargetValue})

\* C8: when no classification fails, CalculateError returns a rate in [0,1]
\* that equals the number of misclassified instances divided by the number
\* of instances, for datasets of every size.
C8_RateIsFraction ==
  (pc = "ready" /\ res.op = "error" /\ res.err = "") =>
     /\ res.rate.den > 0
     /\ 0 <= res.rate.num /\ res.rate.num <= res.rate.den
     /\ res.rate.num * Len(ds) = Wrong(nodes, root, ds) * res.rate.den

\* C9: ReducedErrorPrune never increases validation error: no step of a
\* pass raises the number of validation instances the whole tree
\* misclassifies, so the pass ends with at most the count it started with.
C9_Step == pc = "prune" => Wrong(nodes', root, ds) <= Wrong(nodes, root, ds)
C9_PruneNeverWorsens == [][C9_Step]_vars

\* C9 witness: a pass that replaced an internal child of the root by a leaf
\* and ended with strictly fewer misclassified validation instances.
C9_Witness ==
  /\ pc = "ready" /\ res.op = "prune" /\ res.err = "" /\ ~nodes[root].isOutput
  /\ \E v \in DOMAIN nodes[root].nextDecisions :
       /\ ~nodes0[nodes0[root].nextDecisions[v]].isOutput
       /\ nodes[root].nextDecisions[v] > Len(nodes0)
  /\ Wrong(nodes, root, ds) < Wrong(nodes0, root, ds)

\* A tree as a value, whatever the addresses of its nodes.
RECURSIVE TreeOf(_, _)
TreeOf(nd, n) ==
  IF nd[n].isOutput
  THEN [isOutput |-> TRUE, outputValue |-> nd[n].outputValue,
        featureName |-> NONE, kids |-> EmptyMap]
  ELSE [isOutput |-> FALSE, outputValue |-> FALSE,
        featureName |-> nd[n].featureName,
        kids |-> [v \in DOMAIN nd[n].nextDecisions |-> TreeOf(nd, nd[n].nextDecisions[v])]]

\* The instances of insts that a leaf holding t classifies to a label other
\* than their own.
WrongLeaf(t, insts) ==
  Cardinality({i \in 1..Len(insts) : heap[insts[i]].TargetValue # t})

RECURSIVE PrunedTree(_, _)
\* The pruned tree told child by child from the tree ReducedErrorPrune was
\* called on, with no visiting order: a child stays (pruned in turn) when
\* its majority leaf misclassifies more of the child's own validation subset
\* than the child does, and becomes that leaf otherwise.
PrunedTree(n, insts) ==
  IF nodes0[n].isOutput THEN TreeOf(nodes0, n)
  ELSE [isOutput |-> FALSE, outputValue |-> FALSE,
        featureName |-> nodes0[n].featureName,
        kids |-> [v \in DOMAIN nodes0[n].nextDecisions |->
           LET sub == SelectSeq(insts,
                        LAMBDA p : Lookup(heap[p].FeatureValues, nodes0[n].featureName) = v)
               t == mostPopularTarget(heap, sub)
               c == nodes0[n].nextDecisions[v]
           IN IF WrongLeaf(t, sub) > Wrong(nodes0, c, sub)
              THEN PrunedTree(c, sub)
              ELSE [isOutput |-> TRUE, outputValue |-> t,
                    featureName |-> NONE, kids |-> EmptyMap]]]

RECURSIVE Leaves(_, _)
Leaves(nd, n) ==
  IF nd[n].isOutput THEN {n}
  ELSE UNION {Leaves(nd, nd[n].nextDecisions[k]) : k \in DOMAIN nd[n].nextDecisions}

\* The path strings of the leaves under node n, found by walking down the
\* child maps key by key; prefix is the text for the nodes above n.
RECURSIVE PathStrings(_, _, _)
PathStrings(nd, n, prefix) ==
  IF nd[n].isOutput THEN {prefix \o SprintTarget(nd[n].outputValue)}
  ELSE UNION {PathStrings(nd, nd[n].nextDecisions[k],
                          prefix \o SprintStep(nd[n].featureName, k))
              : k \in DOMAIN nd[n].nextDecisions}

\* C11: String() returns one path string per leaf, each the chain
\* "featureName[featureValue] ==> " of the internal nodes from the root
\* down (featureValue the key that holds the next node) followed by the
\* leaf's output value; the sequence is sorted bytewise and is the same
\* whatever order the child maps are iterated in.
C11_StringSortedPaths ==
  res.op = "string" =>
    /\ Len(res.paths) = Cardinality(Leaves(nodes, root))
    /\ {res.paths[i] : i \in 1..Len(res.paths)} = PathStrings(nodes, root, <<>>)
    /\ \A i \in 1..Len(res.paths) - 1 : ~StrLess(res.paths[i + 1], res.paths[i])
    /\ \A order \in Orders(nodes) : String(nodes, root, order) = res.paths

\* String() returned three paths or more of a tree whose child maps can be
\* walked in orders that list the paths differently.
C11_Witness ==
  /\ res.op = "string" /\ Len(res.paths) >= 3
  /\ \E o1, o2 \in Orders(nodes) :
       string(nodes, root, <<>>, o1) # string(nodes, root, <<>>, o2)

\* The dataset the caller handed to the run, as values.
Dataset == [i \in 1..Len(ds) |-> heap[ds[i]]]
\* The keys BestFeatureInformationGain looks at.
Candidates == DOMAIN heap[ds[1]].FeatureValues
\* k * log2(k) in 1/LogScale bits.
KLog2K(k) == IF k = 0 THEN 0 ELSE k * Log2(k)
\* The instances of the dataset with value v under key k and target t.
Count(k, v, t) ==
  Cardinality({i \in 1..Len(ds) : /\ Lookup(heap[ds[i]].FeatureValues, k) = v
                                  /\ heap[ds[i]].TargetValue = t})
Observed(k) == {Lookup(heap[ds[i]].FeatureValues, k) : i \in 1..Len(ds)}
RECURSIVE SumOver(_, _)
SumOver(S, f) ==
  IF S = {} THEN 0 ELSE LET x == CHOOSE y \in S : TRUE IN f[x] + SumOver(S \ {x}, f)
\* Len(ds) times the information gain of key k on the dataset, from the
\* counts: entropy of the targets minus the weighted entropies per value.
GainTimesLen(k) ==
  LET whole == KLog2K(Len(ds)) - KLog2K(CountOf(TRUE)) - KLog2K(CountOf(FALSE))
      part == [v \in Observed(k) |->
                 KLog2K(Count(k, v, TRUE) + Count(k, v, FALSE))
                   - KLog2K(Count(k, v, TRUE)) - KLog2K(Count(k, v, FALSE))]
  IN whole - SumOver(Observed(k), part)

Separates(k) == \A v \in Observed(k) : Count(k, v, TRUE) = 0 \/ Count(k, v, FALSE) = 0

\* C13: with mixed targets and a key that separates them, Train with
\* BestFeatureInformationGain returns an internal root on a separating key
\* with one leaf per observed value holding that value's target; for Candy
\* the root is "sweet" with 0 -> false and 1 -> true.
C13_SeparatingFeatureDepthOne ==
  (/\ pc = "trained" /\ bf = InformationGain /\ n0 = UintMax
   /\ CountOf(TRUE) > 0 /\ CountOf(FALSE) > 0
   /\ \E k \in Candidates : Separates(k)) =>
    /\ res.err = "" /\ root # NIL /\ ~nodes[root].isOutput
    /\ nodes[root].featureName \in Candidates /\ Separates(nodes[root].featureName)
    /\ DOMAIN nodes[root].nextDecisions = Observed(nodes[root].featureName)
    /\ \A v \in DOMAIN nodes[root].nextDecisions :
         LET child == nodes[nodes[root].nextDecisions[v]] IN
         /\ child.isOutput
         /\ Count(nodes[root].featureName, v, child.outputValue) > 0
    /\ Dataset = Candy =>
         /\ nodes[root].featureName = "sweet"
         /\ DOMAIN nodes[root].nextDecisions = {0, 1}
         /\ nodes[nodes[root].nextDecisions[0]] = OutputNode(FALSE)
         /\ nodes[nodes[root].nextDecisions[1]] = OutputNode(TRUE)
         /\ Len(nodes) = 3

\* Train with BestFeatureInformationGain has returned the Candy tree.
C13_Witness ==
  /\ pc = "trained" /\ bf = InformationGain /\ n0 = UintMax /\ Dataset = Candy
  /\ root # NIL /\ nodes[root].featureName = "sweet"

\* The five paths TestTennis expects, sorted.
TennisPaths ==
  <<Str(<<"o", "u", "t", "l", "o", "o", "k", "[", "0", "]", " ", "=", "=",
          ">", " ", "w", "i", "n", "d", "[", "0", "]", " ", "=", "=", ">",
          " ", "t", "r", "u", "e">>),
    Str(<<"o", "u", "t", "l", "o", "o", "k", "[", "0", "]", " ", "=", "=",
          ">", " ", "w", "i", "n", "d", "[", "1", "]", " ", "=", "=", ">",
          " ", "f", "a", "l", "s", "e">>),
    Str(<<"o", "u", "t", "l", "o", "o", "k", "[", "1", "]", " ", "=", "=",
          ">", " ", "t", "r", "u", "e">>),
    Str(<<"o", "u", "t", "l", "o", "o", "k", "[", "2", "]", " ", "=", "=",
          ">", " ", "h", "u", "m", "i", "d", "i", "t", "y", "[", "0", "]",
          " ", "=", "=", ">", " ", "t", "r", "u", "e">>),
    Str(<<"o", "u", "t", "l", "o", "o", "k", "[", "2", "]", " ", "=", "=",
          ">", " ", "h", "u", "m", "i", "d", "i", "t", "y", "[", "1", "]",
          " ", "=", "=", ">", " ", "f", "a", "l", "s", "e">>)>>

\* C14: for the Tennis dataset String() of the tree that Train with
\* BestFeatureInformationGain returns is the five sorted paths of
\* TestTennis: the root splits on outlook, the overcast bucket (1) is a
\* leaf, and no node uses temp.
C14_TennisPaths ==
  (/\ pc = "trained" /\ bf = InformationGain /\ n0 = UintMax /\ Dataset = Tennis) =>
    /\ res.err = "" /\ root # NIL
    /\ nodes[root].featureName = "outlook"
    /\ nodes[nodes[root].nextDecisions[1]].isOutput
    /\ \A n \in 1..Len(nodes) : nodes[n].featureName # "temp"
    /\ res.op = "string" => res.paths = TennisPaths

\* String() has been called on the tree trained on Tennis.
C14_Witness ==
  /\ pc = "trained" /\ bf = InformationGain /\ n0 = UintMax /\ Dataset = Tennis
  /\ res.op = "string" /\ Len(res.paths) = 5

\* C15: when limitedTrain splits on a feature, the instances handed to each
\* recursive call are clones that no longer hold that feature's key.
C15_RecursiveCallsSeeClones ==
  \A i \in 1..Len(stack) :
    LET F == nodes[stack[i].node].featureName
        v == stack[i].bestFeatureValToInstances
    IN \A k \in DOMAIN v : \A j \in 1..Len(v[k]) :
         /\ F \notin DOMAIN heap[v[k][j]].FeatureValues
         /\ \A x \in 1..Len(ds) : ds[x] # v[k][j]

\* The nodes of the tree under node n.
RECURSIVE Subtree(_, _)
Subtree(nd, n) ==
  {n} \cup UNION {Subtree(nd, nd[n].nextDecisions[k]) : k \in DOMAIN nd[n].nextDecisions}

\* The values an instance sequence shows under key f.
ValuesOf(insts, f) == {Lookup(heap[insts[i]].FeatureValues, f) : i \in 1..Len(insts)}

\* C16 (shape): in every tree that training has returned, pruned or not,
\* a node is a leaf without children or an internal node with at least
\* one child.
C16_Shape ==
  (pc \in {"trained", "held", "ready", "prune"} /\ root # NIL) =>
    \A n \in Subtree(nodes, root) :
      IF nodes[n].isOutput THEN nodes[n].nextDecisions = EmptyMap
      ELSE DOMAIN nodes[n].nextDecisions # {}

\* C16 (creation): when limitedTrain returns an internal node its child
\* keys are the values of its feature observed in the dataset it was built
\* from, one child per observed value.
C16_Created ==
  (pc = "train" /\ stack[Len(stack)].todo = {}) =>
    LET top == stack[Len(stack)]
        f == nodes[top.node].featureName
        given == IF Len(stack) = 1 THEN ds
                 ELSE stack[Len(stack) - 1].bestFeatureValToInstances[top.key]
    IN DOMAIN nodes[top.node].nextDecisions = ValuesOf(given, f)

\* C16 (pruning): a step of ReducedErrorPrune changes no child map's key
\* set; it only changes the node stored under a key of curTree.
C16_PruneStep ==
  pc = "prune" =>
    \A n \in 1..Len(nodes) :
      /\ DOMAIN nodes'[n].nextDecisions = DOMAIN nodes[n].nextDecisions
      /\ n # curTree => nodes'[n] = nodes[n]

\* C16: each node of a returned tree is a leaf or an internal node with a
\* non-empty child map; a created internal node has one child per observed
\* value of its feature and no other; pruning replaces nodes under existing
\* keys and never adds or removes a key.
C16_ChildMapsKeepKeys == [](C16_Shape /\ C16_Created) /\ [][C16_PruneStep]_vars

\* A prune pass has kept a replacement leaf under a key of the root.
C16_Witness ==
  /\ pc = "ready" /\ res.op = "prune" /\ res.err = ""
  /\ ~nodes[root].isOutput
  /\ \E k \in DOMAIN nodes[root].nextDecisions :
       nodes[root].nextDecisions[k] # nodes0[root].nextDecisions[k]

\* The greatest of a non-empty set of numbers.
Max(S) == CHOOSE x \in S : \A y \in S : y <= x
\* Number of internal nodes on the longest path from node n to a leaf.
RECURSIVE Depth(_, _)
Depth(nd, n) ==
  IF nd[n].isOutput THEN 0
  ELSE 1 + Max({Depth(nd, nd[n].nextDecisions[k]) : k \in DOMAIN nd[n].nextDecisions})
\* No internal node under n splits on a name in used or on the name of one
\* of its own ancestors.
RECURSIVE NoRepeat(_, _, _)
NoRepeat(nd, n, used) ==
  \/ nd[n].isOutput
  \/ /\ nd[n].featureName \notin used
     /\ \A k \in DOMAIN nd[n].nextDecisions :
          NoRepeat(nd, nd[n].nextDecisions[k], used \cup {nd[n].featureName})

\* C17: training with BestFeatureInformationGain ends; no feature name is
\* used twice on a path, so the tree is at most as deep as there are
\* feature names, and under LimitedTrain with budget n at most n deep.
C17_DepthBounded ==
  /\ (pc = "train" /\ bf = InformationGain) => Len(stack) <= Cardinality(Candidates)
  /\ (pc = "trained" /\ bf = InformationGain /\ root # NIL) =>
       /\ NoRepeat(nodes, root, {})
       /\ Depth(nodes, root) <= Cardinality(Candidates)
       /\ Depth(nodes, root) <= n0

\* The walk of Classify from node n along inst comes through node target.
RECURSIVE Reaches(_, _, _, _)
Reaches(nd, n, inst, target) ==
  \/ n = target
  \/ /\ ~nd[n].isOutput
     /\ nd[n].featureName \in DOMAIN inst.FeatureValues
     /\ inst.FeatureValues[nd[n].featureName] \in DOMAIN nd[n].nextDecisions
     /\ Reaches(nd, nd[n].nextDecisions[inst.FeatureValues[nd[n].featureName]], inst, target)

\* The validation instances that the tree sends through node n, in order.
ApplicableTo(n) == SelectSeq(ds, LAMBDA p : Reaches(nodes, root, heap[p], n))

\* Number of instances of a sequence with target t.
TargetCount(insts, t) == Cardinality({i \in 1..Len(insts) : heap[insts[i]].TargetValue = t})

\* C18 (child step): the step that takes key v from the keys to visit made
\* a new leaf with a majority target of the child's applicable instances;
\* if the tree with that leaf misclassifies more than the tree before, the
\* entry holds the original child again and (child, applicable instances)
\* is on top of the stacks; otherwise the leaf is in the tree and the
\* stacks are as before.  (Pop step): the tree is untouched.
C18_Step ==
  (pc = "prune" /\ pc' = "prune") =>
    IF todo' # todo /\ todo # {}
    THEN LET v == CHOOSE x \in todo : x \notin todo'
             child == nodes[curTree].nextDecisions[v]
             leaf == Len(nodes) + 1
             applicable == ApplicableTo(child)
             withLeaf == [nodes' EXCEPT ![curTree].nextDecisions =
                                          [@ EXCEPT ![v] = leaf]]
             before == Wrong(nodes, root, ds)
             after == Wrong(withLeaf, root, ds)
         IN /\ Len(nodes') = leaf
            /\ nodes'[leaf].isOutput /\ nodes'[leaf].nextDecisions = EmptyMap
            /\ TargetCount(applicable, nodes'[leaf].outputValue)
                 >= TargetCount(applicable, ~nodes'[leaf].outputValue)
            /\ \A n \in 1..Len(nodes) : n # curTree => nodes'[n] = nodes[n]
            /\ IF after > before
               THEN /\ nodes'[curTree] = nodes[curTree]
                    /\ treeStack' = Append(treeStack, child)
                    /\ dsStack' = Append(dsStack, applicable)
               ELSE /\ nodes'[curTree] = withLeaf[curTree]
                    /\ nodes'[curTree].nextDecisions[v] = leaf
                    /\ treeStack' = treeStack /\ dsStack' = dsStack
    ELSE /\ nodes' = nodes
         /\ nodes[curTree'].isOutput => (todo' = {} /\ Len(treeStack') < Len(treeStack))

\* C18 (no revisit): every node on the stack, and the node whose children
\* are being visited, is part of the tree as it is now: no node of a
\* replaced subtree is on the stack or visited.
C18_OnlyLiveNodes ==
  pc = "prune" =>
    /\ \A i \in 1..Len(treeStack) : treeStack[i] \in Subtree(nodes, root)
    /\ todo # {} => curTree \in Subtree(nodes, root)

RECURSIVE SumSeq(_)
SumSeq(q) == IF q = <<>> THEN 0 ELSE Head(q) + SumSeq(Tail(q))
\* Loop steps that popping node n can cause at most: its own pop and, for
\* an internal node, one step per child plus what a pushed child causes.
RECURSIVE Weight(_, _)
Weight(nd, n) ==
  IF nd[n].isOutput THEN 1
  ELSE 1 + SumOver(DOMAIN nd[n].nextDecisions,
                   [k \in DOMAIN nd[n].nextDecisions |->
                      1 + Weight(nd, nd[n].nextDecisions[k])])
\* Loop steps the pass can still take at most.
PruneWork ==
  SumSeq([i \in 1..Len(treeStack) |-> Weight(nodes, treeStack[i])])
    + SumOver(todo, [k \in todo |-> 1 + Weight(nodes, nodes[curTree].nextDecisions[k])])

\* C19 (progress): every step inside the loop lowers the number of steps
\* the pass can still take.
C19_Step == (pc = "prune" /\ pc' = "prune") => PruneWork' < PruneWork

\* C19 (stacks): no node of the original tree is pushed twice, the two
\* stacks have the same length, and a pass that returns nil leaves both
\* empty.
C19_Stacks ==
  /\ pc = "prune" =>
       /\ Len(treeStack) = Len(dsStack)
       /\ \A n \in 1..Len(nodes0) : pushes[n] <= 1
       /\ PruneWork >= 0
  /\ (pc = "ready" /\ res.op = "prune" /\ res.err = "") =>
       /\ treeStack = <<>> /\ dsStack = <<>>
       /\ \A n \in 1..Len(nodes0) : pushes[n] <= 1

\* C19: ReducedErrorPrune terminates: each node of the original tree is
\* pushed at most once, the tree stack and the instance stack always have
\* the same length, and the loop ends with both empty.
C19_PruneTerminates == []C19_Stacks /\ [][C19_Step]_vars

\* A pass has returned after pushing, besides the root, a child it put back.
C19_Witness ==
  /\ pc = "ready" /\ res.op = "prune" /\ res.err = ""
  /\ \E n \in 1..Len(nodes0) : n # root /\ pushes[n] = 1

\* The node at which the walk from node n of the Decision heap nd along
\* inst stops: an output node, or an internal node that lacks the key or
\* has no child for the value.
RECURSIVE WalkEndIn(_, _, _)
WalkEndIn(nd, n, inst) ==
  LET d == nd[n] IN
  IF d.isOutput THEN n
  ELSE IF /\ d.featureName \in DOMAIN inst.FeatureValues
          /\ inst.FeatureValues[d.featureName] \in DOMAIN d.nextDecisions
       THEN WalkEndIn(nd, d.nextDecisions[inst.FeatureValues[d.featureName]], inst)
       ELSE n
\* The tree nd fails to classify some instance of the validation dataset.
FailsOnSome(nd) ==
  \E i \in 1..Len(ds) : ~nd[WalkEndIn(nd, root, heap[ds[i]])].isOutput

\* C20 (result): the call returns an error exactly when the root is an
\* internal node and the tree it was called on fails on some validation
\* instance; the tree is then as it was before the call.
C20_Result ==
  (pc = "ready" /\ res.op = "prune") =>
    /\ res.err # "" <=> (~nodes0[root].isOutput /\ FailsOnSome(nodes0))
    /\ res.err # "" => nodes = nodes0

\* C20 (steps): an error return happens before any replacement, and a
\* tree with the tentative leaf in place classifies every validation
\* instance, so the second evaluation of a step cannot fail.
C20_Step ==
  pc = "prune" =>
    /\ (pc' = "ready" /\ res'.err # "") => (nodes = nodes0 /\ nodes' = nodes0)
    /\ (pc' = "prune" /\ todo' # todo /\ todo # {}) =>
         LET v == CHOOSE x \in todo : x \notin todo'
             withLeaf == [nodes' EXCEPT ![curTree].nextDecisions =
                                          [@ EXCEPT ![v] = Len(nodes) + 1]]
         IN ~FailsOnSome(withLeaf)

\* C20: ReducedErrorPrune returns an error exactly when the root is
\* internal and the original tree fails to classify some validation
\* instance; the error comes from the first whole-tree evaluation, before
\* any replacement, so the tree is unchanged on error, and the second
\* evaluation of a step never fails.
C20_ErrorOnlyFromOriginalTree == []C20_Result /\ [][C20_Step]_vars

\* A call has returned the error of a validation instance that the tree
\* cannot classify.
C20_Witness ==
  /\ pc = "ready" /\ res.op = "prune" /\ res.err # ""
  /\ ~nodes0[root].isOutput /\ FailsOnSome(nodes0)

\* The validation instances in the bucket of key k when node n of the tree
\* the call started with is popped: those the tree sends through n whose
\* value under n's feature reads k.
ApplicableUnder(n, k) ==
  SelectSeq(ds, LAMBDA p : /\ Reaches(nodes0, root, heap[p], n)
                           /\ Lookup(heap[p].FeatureValues, nodes0[n].featureName) = k)

\* Under every key of a popped internal node whose bucket is empty, the
\* tree now holds a new leaf predicting false.
UnreachedChildrenAreFalseLeaves ==
  \A n \in 1..Len(nodes0) :
    (pushes[n] = 1 /\ ~nodes0[n].isOutput) =>
      \A k \in DOMAIN nodes0[n].nextDecisions :
        ApplicableUnder(n, k) = <<>> =>
          /\ nodes[n].nextDecisions[k] > Len(nodes0)
          /\ nodes[nodes[n].nextDecisions[k]] = OutputNode(FALSE)

====
